---------------------------- MODULE Spec2Model ----------------------------
(***************************************************************************)
(* The SpeakMate webhook server (src/index.js).  The file holds two        *)
(* revisions of the same server:                                           *)
(*   variant 1  lines   1-599  acknowledge first, process in a deferred    *)
(*                             task, handlers with their own try/catch     *)
(*   variant 2  lines 600-841  process inside the request handler, answer  *)
(*                             at its end                                  *)
(* The model follows one server process from its start.  Every callback    *)
(* body of the event loop, from the point where it is resumed up to its    *)
(* next await, is one atomic step; an await of an external call is a       *)
(* suspension whose outcome the environment chooses when (and if) it       *)
(* resumes the handler.                                                    *)
(*                                                                         *)
(* Message texts are sequences of one-character strings, so that the       *)
(* prefix tests, substring and trim of the router are computed as the code *)
(* computes them.  A free text carries, as its last element, the ordinal   *)
(* of its arrival in its chat: users send pairwise distinct free texts.    *)
(***************************************************************************)
EXTENDS Integers, Sequences, FiniteSets, TLC

\* ------------------------------------------------------------------ bounds
\* Inbound requests of one run of Spec (all payloads).
MaxMsgs == 2
\* Inbound requests of one run of SpecLong (conversational payloads only).
MaxLongMsgs == 11
\* Free texts of one run of SpecLong that come from the second chat.
MaxSideMsgs == 1
\* Requests of one run of SpecLong that arrive while a handler is in flight.
MaxLongOverlap == 1
\* /reset requests of one run of SpecLong.
MaxLongResets == 1
\* Inbound requests of one run of SpecCross (two chats served at once).
MaxCrossMsgs == 3

\* ------------------------------------------------------- program constants
\* updatedHistory.slice(-20)
HistoryLimit == 20

Chats == {1, 2}
\* chat of a payload that has no message, or whose message has no chat
NoChat == 0
\* Handlers that may be in flight (or finished and not yet forgotten) at once.
Slots == {1, 2}

\* ------------------------------------------------------------------- texts
Reset == <<"/", "r", "e", "s", "e", "t">>
Start == <<"/", "s", "t", "a", "r", "t">>
Help == <<"/", "h", "e", "l", "p">>
Translate == <<"/", "t", "r", "a", "n", "s", "l", "a", "t", "e">>
Tts == <<"/", "t", "t", "s">>
Empty == <<>>

\* String.prototype.startsWith
StartsWith(text, prefix) ==
    /\ Len(text) >= Len(prefix)
    /\ SubSeq(text, 1, Len(prefix)) = prefix

\* String.prototype.substring(n): the text after its first n characters
Substring(text, n) == SubSeq(text, n + 1, Len(text))

IsSpace(ch) == ch \in {" ", "\t", "\n"}

RECURSIVE TrimStart(_)
TrimStart(text) ==
    IF text # <<>> /\ IsSpace(Head(text)) THEN TrimStart(Tail(text)) ELSE text

RECURSIVE TrimEnd(_)
TrimEnd(text) ==
    IF text # <<>> /\ IsSpace(text[Len(text)])
    THEN TrimEnd(SubSeq(text, 1, Len(text) - 1))
    ELSE text

\* String.prototype.trim
Trim(text) == TrimEnd(TrimStart(text))

\* text.substring('/translate'.length).trim() and text.substring('/tts'.length).trim()
Content(text, prefix) == Trim(Substring(text, Len(prefix)))

\* the n-th free text a chat's user sends
FreeText(n) == <<"m", n>>
\* the reply the language model gives to a text
ReplyTo(text) == <<"A">> \o text
\* '抱歉，我无法生成回复。'
FallbackReply == <<"sorry">>

\* the text the translation service returns for a content
Translated(content) == <<"T">> \o content
\* the result is left out of the message
TranslationTextBlank(translatedText) == <<"R1">>

\* `🌐 翻译结果:\n${translatedText}`
TranslationText(translatedText) == <<"R1">> \o translatedText
\* `翻译: ${response.translations[0].translatedText}`
V2TranslationText(translatedText) == <<"R2">> \o translatedText

\* the transcript the speech service returns for a voice file
Transcript == <<"v">>
\* '（未能识别语音内容）' and '（未识别）'
NoTranscript == <<"?">>

\* ------------------------------------------------------------------- state
VARIABLES
    variant,        \* which revision of the server runs: 1 or 2
    aiKey,          \* !!GOOGLE_AI_API_KEY (variant 1)
    chatHistories,  \* the Map chat id -> array of turns; its keys are its DOMAIN
    reqs,           \* slot -> the request whose handler occupies it
    received,       \* inbound requests so far
    arrivals,       \* chat id -> free texts received from it so far
    committed,      \* chat id -> every turn ever stored for it, in the order stored
    clearedAt,      \* chat id -> Len(committed) when its history was last deleted
    overlapped,     \* chats for which a request arrived while another was in flight
    overlaps,       \* requests that arrived while a handler was in flight
    resets          \* requests received whose text is /reset

vars ==
    <<variant, aiKey, chatHistories, reqs, received, arrivals,
      committed, clearedAt, overlapped, overlaps, resets>>

\* chatHistories.get(chatId) || []
Get(chatId) ==
    IF chatId \in DOMAIN chatHistories THEN chatHistories[chatId] ELSE <<>>

\* one history for all the chats: the set overwrites every entry
SetShared(chatId, value) ==
    [c \in DOMAIN chatHistories \cup {chatId} |-> value]

\* chatHistories.set(chatId, value)
Set(chatId, value) ==
    [c \in DOMAIN chatHistories \cup {chatId} |->
        IF c = chatId THEN value ELSE chatHistories[c]]

\* the delete is given a key the map does not hold: nothing is removed
DeleteNothing(chatId) == chatHistories

\* chatHistories.delete(chatId)
Delete(chatId) ==
    [c \in DOMAIN chatHistories \ {chatId} |-> chatHistories[c]]

\* Array.prototype.slice(-n): the last n elements, all of them when there are fewer
SliceLast(seq, n) ==
    IF Len(seq) <= n THEN seq ELSE SubSeq(seq, Len(seq) - n + 1, Len(seq))

Turn(role, text) == [role |-> role, text |-> text]

\* the reply is put before the text it answers
UpdatedHistorySwapped(history, text, reply) ==
    history \o <<Turn("model", reply), Turn("user", text)>>

\* the new pair is put in front of the history
UpdatedHistoryPrepended(history, text, reply) ==
    <<Turn("user", text), Turn("model", reply)>> \o history

\* [...history, { role: 'user', text }, { role: 'model', text: reply }]
UpdatedHistory(history, text, reply) ==
    history \o <<Turn("user", text), Turn("model", reply)>>

\* slice(0, 20): the oldest turns are kept
TruncatedHead(updatedHistory) ==
    SubSeq(updatedHistory, 1,
           IF Len(updatedHistory) <= HistoryLimit THEN Len(updatedHistory)
           ELSE HistoryLimit)

\* slice(-19): an odd number of turns is kept
TruncatedOdd(updatedHistory) == SliceLast(updatedHistory, HistoryLimit - 1)

\* updatedHistory.slice(-20)
Truncated(updatedHistory) == SliceLast(updatedHistory, HistoryLimit)

\* the dispatch with the tests on the text first and the voice test after them
RouteTextFirst(text, voice) ==
    IF text = Reset THEN "reset"
    ELSE IF StartsWith(text, Start) \/ StartsWith(text, Help) THEN "help"
    ELSE IF StartsWith(text, Translate) THEN "translate"
    ELSE IF StartsWith(text, Tts) THEN "tts"
    ELSE IF voice THEN "voice"
    ELSE IF text = Empty THEN "none"
    ELSE "chat"

\* the dispatch without the /translate and /tts tests: these texts fall through
\* to the conversation
RouteCommandsToChat(text, voice) ==
    IF voice THEN "voice"
    ELSE IF text = Empty THEN "none"
    ELSE IF text = Reset THEN "reset"
    ELSE IF StartsWith(text, Start) \/ StartsWith(text, Help) THEN "help"
    ELSE "chat"

\* the dispatch with /reset tested as a prefix, like the other commands
RoutePrefixReset(text, voice) ==
    IF voice THEN "voice"
    ELSE IF text = Empty THEN "none"
    ELSE IF StartsWith(text, Reset) THEN "reset"
    ELSE IF StartsWith(text, Start) \/ StartsWith(text, Help) THEN "help"
    ELSE IF StartsWith(text, Translate) THEN "translate"
    ELSE IF StartsWith(text, Tts) THEN "tts"
    ELSE "chat"

\* The dispatch of both revisions: the voice test comes first, then the tests on
\* the text, in the order of the source.
Route(text, voice) ==
    IF voice THEN "voice"
    ELSE IF text = Empty THEN "none"
    ELSE IF text = Reset THEN "reset"
    ELSE IF StartsWith(text, Start) \/ StartsWith(text, Help) THEN "help"
    ELSE IF StartsWith(text, Translate) THEN "translate"
    ELSE IF StartsWith(text, Tts) THEN "tts"
    ELSE "chat"

\* ---------------------------------------------------------------- requests
\* An outbound call: to the bot platform (sendMessage, sendChatAction, getFile,
\* fetchVoice, sendVoice) or to a cloud service (recognize, translateText,
\* synthesizeSpeech, generateContent).
Call(api, chat, msg, body) ==
    [api |-> api, chat |-> chat, msg |-> msg, body |-> body]

BotApis == {"sendMessage", "sendChatAction", "getFile", "fetchVoice", "sendVoice"}
AiApis == {"recognize", "translateText", "synthesizeSpeech", "generateContent"}

\* req.body of a POST /
Payload(hasMessage, chat, text, voice) ==
    [hasMessage |-> hasMessage, chat |-> chat, text |-> text, voice |-> voice]

NewRequest(p) ==
    [hasMessage |-> p.hasMessage, chat |-> p.chat, text |-> p.text,
     voice |-> p.voice,
     pc |-> "received",     \* where the handler stands
     handler |-> "none",    \* the branch the dispatch took
     response |-> "none",   \* the HTTP response: none, 200 or 500
     out |-> <<>>,          \* the outbound calls issued, in order
     history |-> <<>>,      \* const history
     reply |-> <<>>,        \* const reply
     notice |-> "none",     \* the failure notification to send
     detail |-> <<>>,       \* error.message, as tokens
     rejected |-> FALSE,    \* the handler's promise was rejected
     deleted |-> FALSE,     \* what chatHistories.delete returned
     stored |-> FALSE,      \* the handler has called chatHistories.set
     outdated |-> FALSE,    \* a /reset of the chat ran while the handler was in flight
     accepted |-> {},       \* positions in out of the calls that returned to a
                            \* handler of variant 1 without throwing
     ignored |-> {}]        \* positions in out of the calls the platform answered
                            \* with ok: false and the handler took as done

Issue(r, call, pc) == [r EXCEPT !.out = Append(@, call), !.pc = pc]

\* apiRequest of variant 1 returns only when the platform answered ok: true,
\* and a cloud client only with a response: the awaited call did not throw
Accept(r, o) ==
    IF o \in {"ok", "empty"} THEN [r EXCEPT !.accepted = @ \cup {Len(r.out)}] ELSE r

\* apiRequest of variant 2 returns the platform's answer whatever its ok field:
\* the caller that does not look at it goes on as after a success
Ignore(r, o) ==
    IF o = "rejected" THEN [r EXCEPT !.ignored = @ \cup {Len(r.out)}] ELSE r

Busy == DOMAIN reqs
\* a new request takes the lowest free slot
Free(s) == s \notin Busy /\ \A t \in Slots : t < s => t \in Busy
AnyInFlight == \E s \in Busy : reqs[s].pc # "done"

\* a request for the chat arrives while another request for it is in flight
Overlaps(chat) == \E s \in Busy : reqs[s].pc # "done" /\ reqs[s].chat = chat

Init ==
    /\ variant \in {1, 2}
    /\ aiKey \in BOOLEAN
    /\ (variant = 2 => aiKey)
    /\ chatHistories = <<>>
    /\ reqs = <<>>
    /\ received = 0
    /\ arrivals = [c \in Chats |-> 0]
    /\ committed = [c \in Chats |-> <<>>]
    /\ clearedAt = [c \in Chats |-> 0]
    /\ overlapped = {}
    /\ overlaps = 0
    /\ resets = 0

Put(s, r) == [t \in Busy \cup {s} |-> IF t = s THEN r ELSE reqs[t]]

\* the /reset of the request in slot s runs chatHistories.delete(chat): the other
\* requests of the chat that are in flight were received before it
Outdate(rs, s, chat) ==
    [t \in DOMAIN rs |->
        IF t # s /\ rs[t].chat = chat /\ rs[t].pc # "done"
        THEN [rs[t] EXCEPT !.outdated = TRUE]
        ELSE rs[t]]

\* The payloads a client may post next: no message, a message without chat, and
\* for every chat every text of interest with and without a voice attachment.
Texts(chat) ==
    { Empty, Reset, Reset \o <<"X">>, Reset \o <<" ">>, Start, Help \o <<"m">>,
      Translate, Translate \o <<" ">>, Translate \o <<" ", "a">>,
      Tts, Tts \o <<" ", " ">>, Tts \o <<" ", "a">>,
      FreeText(arrivals[chat] + 1) }

Payloads ==
    { Payload(FALSE, NoChat, Empty, FALSE), Payload(TRUE, NoChat, Empty, FALSE) }
        \cup UNION { { Payload(TRUE, c, t, v) : t \in Texts(c), v \in BOOLEAN } :
                     c \in Chats }

\* The conversational payloads: a new free text, or /reset, without attachment.
LongPayloads ==
    UNION { { Payload(TRUE, c, t, FALSE) : t \in {Reset, FreeText(arrivals[c] + 1)} } :
            c \in Chats }

\* what receiving a payload does to the bookkeeping of the environment
Arrive(p) ==
    /\ received' = received + 1
    /\ arrivals' =
        IF p.chat \in Chats /\ p.text = FreeText(arrivals[p.chat] + 1)
        THEN [arrivals EXCEPT ![p.chat] = @ + 1]
        ELSE arrivals
    /\ overlapped' =
        IF p.chat \in Chats /\ Overlaps(p.chat)
        THEN overlapped \cup {p.chat}
        ELSE overlapped
    /\ overlaps' = IF AnyInFlight THEN overlaps + 1 ELSE overlaps
    /\ resets' = IF p.hasMessage /\ p.text = Reset THEN resets + 1 ELSE resets

\* outcomes of a call to the bot platform: accepted, answered with ok: false,
\* or no answer at all (the fetch throws)
BotOutcomes == {"ok", "rejected", "neterr"}
\* outcomes of a call to a cloud service
AiOutcomes == {"ok", "fail"}
\* outcomes of callGeminiAPI: a reply, a reply without text, and its failures
GeminiFailures ==
    {"http403", "http429", "http400", "http500", "nocandidates", "safety",
     "network", "timeout"}
GeminiOutcomes == {"ok", "empty"} \cup GeminiFailures

\* ------------------------------------------------------------- variant 1
\* The message of the Error callGeminiAPI throws, as tokens: the errors it
\* raises itself pass its catch only when they carry one of five markers, the
\* others are wrapped as UNEXPECTED_ERROR.
GeminiError(o) ==
    CASE o = "http403" -> <<"API_KEY", "_INVALID">>
      [] o = "http429" -> <<"QUOTA", "_EXCEEDED">>
      [] o = "http400" -> <<"BAD_REQUEST">>
      [] o = "http500" -> <<"UNEXPECTED_ERROR", "HTTP_ERROR", "500">>
      [] o = "apierror" -> <<"UNEXPECTED_ERROR", "GEMINI_API_ERROR">>
      [] o = "nocandidates" -> <<"NO_RESPONSE">>
      [] o = "safety" -> <<"CONTENT_BLOCKED">>
      [] o = "network" -> <<"NETWORK_ERROR">>
      [] o = "timeout" -> <<"TIMEOUT_ERROR">>
      [] OTHER -> <<"UNEXPECTED_ERROR">>

\* error.message?.includes(token)
Includes(message, token) == \E i \in 1..Len(message) : message[i] = token

\* the explanation handleAIChat's catch chooses for an error message
ErrorMessage(message) ==
    IF Includes(message, "403") \/ Includes(message, "API_KEY") THEN "AiKeyProblem"
    ELSE IF Includes(message, "429") \/ Includes(message, "QUOTA") THEN "AiQuota"
    ELSE IF Includes(message, "400") THEN "AiBadRequest"
    ELSE "AiDetail"

\* the catch sends the notification itself and schedules it as well
CatchSendingTwice(r, notice, message) ==
    [r EXCEPT !.notice = notice, !.detail = message, !.pc = "notify",
              !.out = Append(@, Call("sendMessage", r.chat, notice, message))]

\* catch (error) { setImmediate(() => safeSendMessage(...)) } of a handler
Catch(r, notice, message) ==
    [r EXCEPT !.notice = notice, !.detail = message, !.pc = "notify"]

\* apiRequest of variant 1 throws when the platform rejects or does not answer
BotError(o) == IF o = "neterr" THEN <<"fetch failed">> ELSE <<"Telegram API error">>

\* the test of the key is left out
KeyAssumed == TRUE

\* if (!GOOGLE_AI_API_KEY) at the head of handleAIChat
KeyConfigured == aiKey

\* the acknowledgement is left out (or moved behind the processing)
V1AcknowledgeLate(r) == r

\* res.status(200).send('OK'), the first statement of the handler
V1Acknowledge(r) == [r EXCEPT !.response = "200"]

\* app.post('/') of variant 1: acknowledge, validate, defer
V1Post(s, p) ==
    /\ variant = 1
    /\ Free(s)
    /\ LET r0 == V1Acknowledge(NewRequest(p))
           r == IF ~p.hasMessage THEN [r0 EXCEPT !.pc = "done"]
                ELSE IF p.chat = NoChat
                THEN [r0 EXCEPT !.pc = "done", !.rejected = TRUE]
                ELSE [r0 EXCEPT !.pc = "deferred"]
       IN reqs' = Put(s, r)
    /\ Arrive(p)
    /\ UNCHANGED <<variant, aiKey, chatHistories, committed, clearedAt>>

\* the setImmediate callback of app.post('/'): the dispatch, up to the first await
V1Deferred(s) ==
    /\ variant = 1
    /\ s \in Busy
    /\ reqs[s].pc = "deferred"
    /\ LET r == [reqs[s] EXCEPT !.handler = Route(reqs[s].text, reqs[s].voice)]
           c == r.chat
           h == r.handler
           send(msg) == Issue(r, Call("sendMessage", c, msg, <<>>), "safe_send")
           rs == IF h = "reset" THEN Outdate(reqs, s, c) ELSE reqs
       IN
        /\ reqs' = [rs EXCEPT ![s] =
            CASE h = "voice" ->
                    Issue(r, Call("sendMessage", c, "VoiceNotice", <<>>), "voice_notice")
              [] h = "reset" ->
                    [send("ResetDone") EXCEPT !.deleted = c \in DOMAIN chatHistories]
              [] h = "help" -> send("HelpText")
              [] h = "translate" ->
                    IF Content(r.text, Translate) = Empty
                    THEN send("UsageTranslate")
                    ELSE Issue(r, Call("sendChatAction", c, "typing", <<>>), "tr_action")
              [] h = "tts" ->
                    IF Content(r.text, Tts) = Empty
                    THEN send("UsageTts")
                    ELSE Issue(r, Call("sendChatAction", c, "upload_voice", <<>>), "tts_action")
              [] h = "chat" ->
                    IF ~KeyConfigured
                    THEN Catch(r, "AiUnavailable", <<>>)
                    ELSE Issue(r, Call("sendChatAction", c, "typing", <<>>), "chat_action")
              [] OTHER -> [r EXCEPT !.pc = "done"]]
        /\ chatHistories' = IF h = "reset" THEN Delete(c) ELSE chatHistories
        /\ clearedAt' =
            IF h = "reset" THEN [clearedAt EXCEPT ![c] = Len(committed[c])] ELSE clearedAt
    /\ UNCHANGED <<variant, aiKey, received, arrivals, committed, overlapped,
                   overlaps, resets>>

\* handleVoiceMessage, resumed at its await with the outcome o of the call
V1HandleVoiceMessage(s, o) ==
    /\ variant = 1
    /\ s \in Busy
    /\ LET r == reqs[s]
           c == r.chat
           failed == Catch(r, "VoiceFailed", <<>>)
       IN
        /\ r.pc \in {"voice_notice", "voice_getfile", "voice_fetch", "voice_stt",
                     "voice_result"}
        /\ o \in IF r.pc = "voice_stt" THEN AiOutcomes \cup {"empty"} ELSE BotOutcomes
        /\ reqs' = Put(s,
            IF o \notin {"ok", "empty"} THEN failed
            ELSE CASE r.pc = "voice_notice" ->
                        Issue(Accept(r, o), Call("getFile", c, "voice", <<>>), "voice_getfile")
                   [] r.pc = "voice_getfile" ->
                        Issue(Accept(r, o), Call("fetchVoice", c, "voice", <<>>), "voice_fetch")
                   [] r.pc = "voice_fetch" ->
                        Issue(Accept(r, o), Call("recognize", c, "voice", <<>>), "voice_stt")
                   [] r.pc = "voice_stt" ->
                        Issue(Accept(r, o), Call("sendMessage", c, "VoiceResult",
                                      IF o = "ok" THEN Transcript ELSE NoTranscript),
                              "voice_result")
                   [] OTHER -> [Accept(r, o) EXCEPT !.pc = "done"])
    /\ UNCHANGED <<variant, aiKey, chatHistories, received, arrivals, committed,
                   clearedAt, overlapped, overlaps, resets>>

\* handleTranslation, resumed at its await with the outcome o of the call
V1HandleTranslation(s, o) ==
    /\ variant = 1
    /\ s \in Busy
    /\ LET r == reqs[s]
           c == r.chat
           content == Content(r.text, Translate)
       IN
        /\ r.pc \in {"tr_action", "tr_call", "tr_send"}
        /\ o \in IF r.pc = "tr_call" THEN AiOutcomes ELSE BotOutcomes
        /\ reqs' = Put(s,
            IF o # "ok" THEN Catch(r, "TranslationFailed", <<>>)
            ELSE CASE r.pc = "tr_action" ->
                        Issue(Accept(r, o), Call("translateText", c, "en", content), "tr_call")
                   [] r.pc = "tr_call" ->
                        Issue(Accept(r, o), Call("sendMessage", c, "TranslationResult",
                                      TranslationText(Translated(content))), "tr_send")
                   [] OTHER -> [Accept(r, o) EXCEPT !.pc = "done"])
    /\ UNCHANGED <<variant, aiKey, chatHistories, received, arrivals, committed,
                   clearedAt, overlapped, overlaps, resets>>

\* handleTextToSpeech, resumed at its await with the outcome o of the call
V1HandleTextToSpeech(s, o) ==
    /\ variant = 1
    /\ s \in Busy
    /\ LET r == reqs[s]
           c == r.chat
           content == Content(r.text, Tts)
       IN
        /\ r.pc \in {"tts_action", "tts_call", "tts_upload"}
        /\ o \in IF r.pc = "tts_call" THEN AiOutcomes ELSE BotOutcomes
        /\ reqs' = Put(s,
            IF o # "ok" THEN Catch(r, "TtsFailed", <<>>)
            ELSE CASE r.pc = "tts_action" ->
                        Issue(Accept(r, o), Call("synthesizeSpeech", c, "en-US", content), "tts_call")
                   [] r.pc = "tts_call" ->
                        Issue(Accept(r, o), Call("sendVoice", c, "tts.mp3", content), "tts_upload")
                   [] OTHER -> [Accept(r, o) EXCEPT !.pc = "done"])
    /\ UNCHANGED <<variant, aiKey, chatHistories, received, arrivals, committed,
                   clearedAt, overlapped, overlaps, resets>>

\* the history is set as soon as the model call has returned, whatever it returned
V1StoresEarly(pc, o) == pc = "chat_llm"

\* the history is set when the sendMessage of the reply has returned or thrown
V1StoresWhateverSent(pc, o) == pc = "chat_send"

\* handleAIChat reaches chatHistories.set when the awaited sendMessage of the
\* reply has returned without throwing
V1Stores(pc, o) == pc = "chat_send" /\ o = "ok"

\* the chat branch of variant 2 reaches chatHistories.set when the awaited
\* sendMessage of the reply has returned, whatever the platform answered
V2Stores(pc, o) == pc = "chat_send" /\ o \in {"ok", "rejected"}

\* what storing a turn pair does to the record of the turns stored
Commit(chat, text, reply) ==
    committed' = [committed EXCEPT ![chat] = @ \o <<Turn("user", text), Turn("model", reply)>>]

\* handleAIChat, resumed at its await with the outcome o of the call
V1HandleAIChat(s, o) ==
    /\ variant = 1
    /\ s \in Busy
    /\ LET r == reqs[s]
           c == r.chat
           message == IF r.pc = "chat_llm" THEN GeminiError(o) ELSE BotError(o)
           failed == Catch(r, ErrorMessage(message), message)
           history == Get(c)
           reply == IF o = "ok" THEN ReplyTo(r.text) ELSE FallbackReply
       IN
        /\ r.pc \in {"chat_action", "chat_llm", "chat_send"}
        /\ o \in IF r.pc = "chat_llm" THEN GeminiOutcomes ELSE BotOutcomes
        /\ reqs' = Put(s,
            [(IF o \notin {"ok", "empty"} THEN failed
              ELSE CASE r.pc = "chat_action" ->
                        Issue([Accept(r, o) EXCEPT !.history = history],
                              Call("generateContent", c, "contents",
                                   history \o <<Turn("user", r.text)>>), "chat_llm")
                   [] r.pc = "chat_llm" ->
                        Issue([Accept(r, o) EXCEPT !.reply = reply],
                              Call("sendMessage", c, "Reply", reply), "chat_send")
                   [] OTHER -> [Accept(r, o) EXCEPT !.pc = "done"])
             EXCEPT !.stored = @ \/ V1Stores(r.pc, o)])
        /\ IF V1Stores(r.pc, o)
           THEN /\ chatHistories' =
                    Set(c, Truncated(UpdatedHistory(r.history, r.text, r.reply)))
                /\ Commit(c, r.text, r.reply)
           ELSE UNCHANGED <<chatHistories, committed>>
    /\ UNCHANGED <<variant, aiKey, received, arrivals, clearedAt, overlapped, overlaps,
                   resets>>

\* the setImmediate callback of a handler's catch: safeSendMessage sends the notice
V1Notify(s) ==
    /\ variant = 1
    /\ s \in Busy
    /\ reqs[s].pc = "notify"
    /\ reqs' = Put(s, Issue(reqs[s],
                            Call("sendMessage", reqs[s].chat, reqs[s].notice,
                                 reqs[s].detail), "safe_send"))
    /\ UNCHANGED <<variant, aiKey, chatHistories, received, arrivals,
                   committed, clearedAt, overlapped, overlaps, resets>>

\* safeSendMessage, resumed at its await: a failure is logged and nothing more
V1SafeSendMessage(s, o) ==
    /\ variant = 1
    /\ s \in Busy
    /\ reqs[s].pc = "safe_send"
    /\ o \in BotOutcomes
    /\ reqs' = Put(s, [Accept(reqs[s], o) EXCEPT !.pc = "done"])
    /\ UNCHANGED <<variant, aiKey, chatHistories, received, arrivals, committed,
                   clearedAt, overlapped, overlaps, resets>>

\* the server forgets a request whose handler has ended
Retire(s) ==
    /\ s \in Busy
    /\ reqs[s].pc = "done"
    /\ reqs' = [t \in Busy \ {s} |-> reqs[t]]
    /\ UNCHANGED <<variant, aiKey, chatHistories, received, arrivals,
                   committed, clearedAt, overlapped, overlaps, resets>>

\* ------------------------------------------------------------- variant 2
\* What the client gets when the handler's promise is rejected: the framework
\* either leaves the request without a response or passes the error to the
\* error middleware, which answers 500; its version is not fixed by the source.
RejectionResponses == {"none", "500"}

\* catch (error) { await apiRequest(botToken, 'sendMessage', ...) } of variant 2
V2Caught(r) == Issue(r, Call("sendMessage", r.chat, "Error", <<>>), "catch_send")

\* res.status(200).send('OK') at the end of the handler
V2Respond(r) == [r EXCEPT !.response = "200", !.pc = "done"]

\* return await apiRequest(...) and return inside the try: the handler ends
\* without reaching res.status(200).send('OK')
V2Return(r) == [r EXCEPT !.pc = "done"]

\* app.post('/') of variant 2, up to its first await
V2Post(s, p, resp) ==
    /\ variant = 2
    /\ Free(s)
    /\ resp \in RejectionResponses
    /\ LET r0 == [NewRequest(p) EXCEPT !.handler =
                    IF p.hasMessage /\ p.chat # NoChat THEN Route(p.text, p.voice)
                    ELSE "none"]
           c == p.chat
           h == r0.handler
           clears == p.hasMessage /\ c # NoChat /\ h = "reset"
           posted ==
               IF ~p.hasMessage THEN V2Respond(r0)
               ELSE IF c = NoChat
               THEN [r0 EXCEPT !.pc = "done", !.rejected = TRUE, !.response = resp]
               ELSE CASE h = "voice" ->
                           Issue(r0, Call("sendMessage", c, "VoiceNotice", <<>>), "voice_notice")
                      [] h = "reset" ->
                           [Issue(r0, Call("sendMessage", c, "ResetDone", <<>>), "cmd_send")
                               EXCEPT !.deleted = c \in DOMAIN chatHistories]
                      [] h = "help" ->
                           Issue(r0, Call("sendMessage", c, "HelpText", <<>>), "cmd_send")
                      [] h = "translate" ->
                           Issue(r0, Call("translateText", c, "en",
                                          Content(r0.text, Translate)), "tr_call")
                      [] h = "tts" ->
                           IF Content(r0.text, Tts) = Empty
                           THEN Issue(r0, Call("sendMessage", c, "UsageTts", <<>>), "cmd_send")
                           ELSE Issue(r0, Call("sendChatAction", c, "upload_voice", <<>>),
                                      "tts_action")
                      [] h = "chat" ->
                           Issue(r0, Call("sendChatAction", c, "typing", <<>>), "chat_action")
                      [] OTHER -> V2Respond(r0)
       IN
        /\ reqs' = IF clears THEN Outdate(Put(s, posted), s, c) ELSE Put(s, posted)
        /\ chatHistories' = IF clears THEN Delete(c) ELSE chatHistories
        /\ clearedAt' =
            IF clears THEN [clearedAt EXCEPT ![c] = Len(committed[c])] ELSE clearedAt
        /\ (p.hasMessage /\ c = NoChat) \/ resp = "none"
    /\ Arrive(p)
    /\ UNCHANGED <<variant, aiKey, committed>>

\* the voice branch of variant 2, resumed at its await with the outcome o
V2Voice(s, o) ==
    /\ variant = 2
    /\ s \in Busy
    /\ LET r == reqs[s]
           c == r.chat
       IN
        /\ r.pc \in {"voice_notice", "voice_getfile", "voice_fetch", "voice_stt",
                     "voice_result"}
        /\ o \in IF r.pc = "voice_stt" THEN AiOutcomes \cup {"empty"} ELSE BotOutcomes
        /\ reqs' = Put(s,
            CASE o \in {"neterr", "fail"} -> V2Caught(r)
              [] r.pc = "voice_notice" ->
                    Issue(Ignore(r, o), Call("getFile", c, "voice", <<>>), "voice_getfile")
              [] r.pc = "voice_getfile" ->
                    \* fileInfo.result is undefined when the platform rejected
                    IF o = "rejected" THEN V2Caught(r)
                    ELSE Issue(r, Call("fetchVoice", c, "voice", <<>>), "voice_fetch")
              [] r.pc = "voice_fetch" ->
                    Issue(r, Call("recognize", c, "voice", <<>>), "voice_stt")
              [] r.pc = "voice_stt" ->
                    Issue(r, Call("sendMessage", c, "VoiceResult",
                                  IF o = "ok" THEN Transcript ELSE NoTranscript),
                          "voice_result")
              [] OTHER -> V2Respond(Ignore(r, o)))
    /\ UNCHANGED <<variant, aiKey, chatHistories, received, arrivals, committed,
                   clearedAt, overlapped, overlaps, resets>>

\* the /reset, /help, /translate and /tts branches of variant 2, resumed
V2Command(s, o) ==
    /\ variant = 2
    /\ s \in Busy
    /\ LET r == reqs[s]
           c == r.chat
       IN
        /\ r.pc \in {"cmd_send", "tr_call", "tts_action", "tts_call", "tts_upload"}
        /\ o \in IF r.pc \in {"tr_call", "tts_call"} THEN AiOutcomes ELSE BotOutcomes
        /\ reqs' = Put(s,
            CASE o \in {"neterr", "fail"} -> V2Caught(r)
              [] r.pc = "cmd_send" -> V2Return(Ignore(r, o))
              [] r.pc = "tr_call" ->
                    Issue(r, Call("sendMessage", c, "TranslationResult",
                                  V2TranslationText(Translated(Content(r.text, Translate)))),
                          "cmd_send")
              [] r.pc = "tts_action" ->
                    Issue(Ignore(r, o),
                          Call("synthesizeSpeech", c, "en-US", Content(r.text, Tts)),
                          "tts_call")
              [] r.pc = "tts_call" ->
                    Issue(r, Call("sendVoice", c, "tts.mp3", Content(r.text, Tts)),
                          "tts_upload")
              [] OTHER ->
                    IF o = "rejected"
                    THEN Issue(r, Call("sendMessage", c, "TtsSendFailed", <<>>), "cmd_send")
                    ELSE V2Return(r))
    /\ UNCHANGED <<variant, aiKey, chatHistories, received, arrivals, committed,
                   clearedAt, overlapped, overlaps, resets>>

\* the conversational branch of variant 2, resumed at its await with the outcome o
V2Chat(s, o) ==
    /\ variant = 2
    /\ s \in Busy
    /\ LET r == reqs[s]
           c == r.chat
           history == Get(c)
           reply == ReplyTo(r.text)
       IN
        /\ r.pc \in {"chat_action", "chat_llm", "chat_send"}
        /\ o \in IF r.pc = "chat_llm" THEN AiOutcomes ELSE BotOutcomes
        /\ reqs' = Put(s,
            [(CASE o \in {"neterr", "fail"} -> V2Caught(r)
                [] r.pc = "chat_action" ->
                    Issue([Ignore(r, o) EXCEPT !.history = history],
                          Call("generateContent", c, "contents",
                               history \o <<Turn("user", r.text)>>), "chat_llm")
                [] r.pc = "chat_llm" ->
                    Issue([r EXCEPT !.reply = reply],
                          Call("sendMessage", c, "Reply", reply), "chat_send")
                [] OTHER -> V2Respond(Ignore(r, o)))
             EXCEPT !.stored = @ \/ V2Stores(r.pc, o)])
        /\ IF V2Stores(r.pc, o)
           THEN /\ chatHistories' =
                    Set(c, Truncated(UpdatedHistory(r.history, r.text, r.reply)))
                /\ Commit(c, r.text, r.reply)
           ELSE UNCHANGED <<chatHistories, committed>>
    /\ UNCHANGED <<variant, aiKey, received, arrivals, clearedAt, overlapped, overlaps,
                   resets>>

\* the catch of variant 2, resumed at the await of its sendMessage
V2Catch(s, o, resp) ==
    /\ variant = 2
    /\ s \in Busy
    /\ reqs[s].pc = "catch_send"
    /\ o \in BotOutcomes
    /\ resp \in RejectionResponses
    /\ (o = "neterr") \/ resp = "none"
    /\ reqs' = Put(s,
        IF o = "neterr"
        THEN [reqs[s] EXCEPT !.pc = "done", !.rejected = TRUE, !.response = resp]
        ELSE V2Respond(Ignore(reqs[s], o)))
    /\ UNCHANGED <<variant, aiKey, chatHistories, received, arrivals, committed,
                   clearedAt, overlapped, overlaps, resets>>

\* -------------------------------------------------------- specifications
\* Every payload, every outcome, MaxMsgs requests, each received when no
\* handler is in flight.
Quiet == Busy = {}

Next ==
    \/ \E s \in Slots, p \in Payloads : received < MaxMsgs /\ Quiet /\ V1Post(s, p)
    \/ \E s \in Slots : V1Deferred(s)
    \/ \E s \in Slots, o \in BotOutcomes \cup AiOutcomes \cup {"empty"} :
            V1HandleVoiceMessage(s, o)
    \/ \E s \in Slots, o \in BotOutcomes \cup AiOutcomes : V1HandleTranslation(s, o)
    \/ \E s \in Slots, o \in BotOutcomes \cup AiOutcomes : V1HandleTextToSpeech(s, o)
    \/ \E s \in Slots, o \in BotOutcomes \cup GeminiOutcomes : V1HandleAIChat(s, o)
    \/ \E s \in Slots : V1Notify(s)
    \/ \E s \in Slots, o \in BotOutcomes : V1SafeSendMessage(s, o)
    \/ \E s \in Slots, p \in Payloads, resp \in RejectionResponses :
            received < MaxMsgs /\ Quiet /\ V2Post(s, p, resp)
    \/ \E s \in Slots, o \in BotOutcomes \cup AiOutcomes \cup {"empty"} : V2Voice(s, o)
    \/ \E s \in Slots, o \in BotOutcomes \cup AiOutcomes : V2Command(s, o)
    \/ \E s \in Slots, o \in BotOutcomes \cup AiOutcomes : V2Chat(s, o)
    \/ \E s \in Slots, o \in BotOutcomes, resp \in RejectionResponses : V2Catch(s, o, resp)
    \/ \E s \in Slots : Retire(s)

Spec == Init /\ [][Next]_vars

\* In a long run every external call succeeds.
Allowed(o) == o = "ok"

\* The requests of a long run: at most MaxSideMsgs of them come from the second
\* chat, which sends free texts only, and a request that arrives while a
\* handler is in flight is one of the chat that handler works for.
LongPost(p) ==
    /\ received < MaxLongMsgs
    /\ p.chat = 2 => arrivals[2] < MaxSideMsgs /\ p.text # Reset
    /\ AnyInFlight => overlaps < MaxLongOverlap /\ Overlaps(p.chat)
    /\ p.text = Reset => resets < MaxLongResets

\* a finished request is forgotten before anything else happens
NoneDone == \A s \in Busy : reqs[s].pc # "done"

\* Conversational payloads only, no failing call, MaxLongMsgs requests of which
\* at most MaxLongOverlap arrive while a handler is in flight: the runs in which
\* a history grows past HistoryLimit.
NextLong ==
    \/ \E s \in Slots, p \in LongPayloads : NoneDone /\ LongPost(p) /\ V1Post(s, p)
    \/ \E s \in Slots : NoneDone /\ V1Deferred(s)
    \/ \E s \in Slots, o \in BotOutcomes \cup GeminiOutcomes :
            NoneDone /\ Allowed(o) /\ V1HandleAIChat(s, o)
    \/ \E s \in Slots : NoneDone /\ V1Notify(s)
    \/ \E s \in Slots, o \in BotOutcomes :
            NoneDone /\ Allowed(o) /\ V1SafeSendMessage(s, o)
    \/ \E s \in Slots, p \in LongPayloads :
            NoneDone /\ LongPost(p) /\ V2Post(s, p, "none")
    \/ \E s \in Slots, o \in BotOutcomes \cup AiOutcomes :
            NoneDone /\ Allowed(o) /\ V2Command(s, o)
    \/ \E s \in Slots, o \in BotOutcomes \cup AiOutcomes :
            NoneDone /\ Allowed(o) /\ V2Chat(s, o)
    \/ \E s \in Slots : Retire(s)

SpecLong == Init /\ [][NextLong]_vars

\* The requests of a crossing run: a request that arrives while a handler is in
\* flight comes from the other chat.
CrossPost(p) ==
    /\ received < MaxCrossMsgs
    /\ ~Overlaps(p.chat)

\* Conversational payloads of both chats, every outcome of every call,
\* MaxCrossMsgs requests, the handlers of the two chats in flight together: the
\* runs in which the handler of one chat is suspended while the other's runs.
NextCross ==
    \/ \E s \in Slots, p \in LongPayloads : NoneDone /\ CrossPost(p) /\ V1Post(s, p)
    \/ \E s \in Slots : NoneDone /\ V1Deferred(s)
    \/ \E s \in Slots, o \in BotOutcomes \cup GeminiOutcomes :
            NoneDone /\ V1HandleAIChat(s, o)
    \/ \E s \in Slots : NoneDone /\ V1Notify(s)
    \/ \E s \in Slots, o \in BotOutcomes : NoneDone /\ V1SafeSendMessage(s, o)
    \/ \E s \in Slots, p \in LongPayloads :
            NoneDone /\ CrossPost(p) /\ V2Post(s, p, "none")
    \/ \E s \in Slots, o \in BotOutcomes \cup AiOutcomes : NoneDone /\ V2Command(s, o)
    \/ \E s \in Slots, o \in BotOutcomes \cup AiOutcomes : NoneDone /\ V2Chat(s, o)
    \/ \E s \in Slots, o \in BotOutcomes, resp \in RejectionResponses :
            NoneDone /\ V2Catch(s, o, resp)
    \/ \E s \in Slots : Retire(s)

SpecCross == Init /\ [][NextCross]_vars

\* ------------------------------------------------------------------ claims
\* the requests whose dispatch has run: they carry a message with a chat, and
\* are past the point where the handler is selected
Dispatched(r) == r.hasMessage /\ r.chat # NoChat /\ r.pc # "deferred"

\* the request has issued a call of the kind
Called(r, api, msg) == \E i \in 1..Len(r.out) : r.out[i].api = api /\ r.out[i].msg = msg
CalledApi(r, api) == \E i \in 1..Len(r.out) : r.out[i].api = api

\* C1: in variant 1 a request is acknowledged with 200 before anything is done
\* for it: whenever a request has been dispatched, has issued an outbound call,
\* has touched the store, has failed or has ended, its response is the 200
\* acknowledgement, whatever error its processing met.
C1_AckBeforeProcessing ==
    variant = 1 =>
        \A s \in Busy :
            LET r == reqs[s] IN
            (\/ r.out # <<>>
             \/ r.handler # "none"
             \/ r.deleted
             \/ r.rejected
             \/ r.notice # "none"
             \/ r.pc \in {"deferred", "done"}) => r.response = "200"

\* a request of variant 1 whose processing failed and ended: its failure notice
\* went out, and it was acknowledged
C1_Witness ==
    /\ variant = 1
    /\ \E s \in Busy :
        /\ reqs[s].pc = "done"
        /\ reqs[s].notice # "none"
        /\ Len(reqs[s].out) >= 2
        /\ reqs[s].response = "200"

\* C2: in both variants every request is answered 200 whatever its payload and
\* whatever the outcome of the calls made for it, and the answer does not wait
\* for those calls: a request that has issued an outbound call or has ended has
\* the response 200.
C2_AlwaysAcknowledged ==
    \A s \in Busy :
        (reqs[s].out # <<>> \/ reqs[s].pc = "done") => reqs[s].response = "200"

\* h is the end of u
IsSuffix(h, u) ==
    /\ Len(h) <= Len(u)
    /\ \A i \in 1..Len(h) : h[i] = u[Len(u) - Len(h) + i]

\* the commit of a conversational exchange in this step: the handler in slot s
\* was suspended at the await of its reply's sendMessage and stores a history
Commits(s) ==
    /\ s \in Busy
    /\ reqs[s].pc = "chat_send"
    /\ reqs'[s].pc = "done"
    /\ reqs[s].chat \in DOMAIN chatHistories'
    /\ committed'[reqs[s].chat] # committed[reqs[s].chat]

\* C3: no stored history is ever longer than 20 turns, and what an update
\* stores is the end of the sequence it was computed from (the history the
\* handler read, followed by the new user and model turns), whole when that
\* has at most 20 turns and its last 20 turns otherwise: only turns at the head
\* are dropped.
C3_BoundedDropsOldest ==
    /\ [](\A c \in DOMAIN chatHistories : Len(chatHistories[c]) <= 20)
    /\ [][\A s \in Slots :
            Commits(s) =>
                LET r == reqs[s]
                    u == r.history \o <<Turn("user", r.text), Turn("model", r.reply)>>
                    h == chatHistories'[r.chat]
                IN  /\ IsSuffix(h, u)
                    /\ Len(h) = IF Len(u) <= 20 THEN Len(u) ELSE 20]_vars

\* a history of 20 turns of a chat for which more than 20 turns were stored:
\* an update has dropped turns
C3_Witness ==
    \E c \in DOMAIN chatHistories :
        /\ Len(chatHistories[c]) = 20
        /\ Len(committed[c]) - clearedAt[c] > 20

\* the turns stored for a chat since its history was last deleted
Appended(c) == SubSeq(committed[c], clearedAt[c] + 1, Len(committed[c]))

\* C4: when the requests of a chat never overlapped and more than 20 turns were
\* appended for it (since its history was last deleted), the history read for
\* it is exactly the last 20 of the turns appended, in the order appended.
C4_LastTwentyInOrder ==
    \A c \in Chats :
        (c \notin overlapped /\ Len(Appended(c)) > 20) =>
            /\ Len(Get(c)) = 20
            /\ \A i \in 1..20 : Get(c)[i] = Appended(c)[Len(Appended(c)) - 20 + i]

\* a chat whose requests never overlapped and for which N > 20 turns were appended
C4_Witness ==
    \E c \in Chats : c \notin overlapped /\ Len(Appended(c)) > 20

\* the ordinal of arrival of the free text a turn was made from
Arrival(turn) == turn.text[Len(turn.text)]

\* h can be obtained from log by leaving elements out
RECURSIVE IsSubsequence(_, _)
IsSubsequence(h, log) ==
    IF h = <<>> THEN TRUE
    ELSE IF log = <<>> THEN FALSE
    ELSE IF Head(h) = Head(log) THEN IsSubsequence(Tail(h), Tail(log))
    ELSE IsSubsequence(h, Tail(log))

\* C5 as stated: under every interleaving a history read has at most 20 turns,
\* and the turns of a message that arrived earlier never come after the turns
\* of a message that arrived later.
C5_ArrivalOrder ==
    \A c \in Chats :
        /\ Len(Get(c)) <= 20
        /\ \A i, j \in 1..Len(Get(c)) :
            i < j => Arrival(Get(c)[i]) <= Arrival(Get(c)[j])

\* C5, amended: under every interleaving a history read (the stored one, and the
\* one a suspended handler holds) has at most 20 turns and has its turns in the
\* order in which they were stored: it is the record of the turns stored for
\* the chat with turns left out.
C5_StoredOrder ==
    /\ \A c \in Chats :
        /\ Len(Get(c)) <= 20
        /\ IsSubsequence(Get(c), committed[c])
    /\ \A s \in Busy :
        reqs[s].chat \in Chats =>
            /\ Len(reqs[s].history) <= 20
            /\ IsSubsequence(reqs[s].history, committed[reqs[s].chat])

\* overlapping handlers have stored their turns in another order than their
\* messages arrived
C5_Witness ==
    \E c \in Chats :
        \E i, j \in 1..Len(Get(c)) :
            i < j /\ Arrival(Get(c)[i]) > Arrival(Get(c)[j])

\* C6: no completed exchange is lost: as long as no /reset was received, the
\* stored history of a chat holds the turns of every exchange stored for it,
\* the oldest dropped beyond 20; a handler that finishes last does not erase
\* the pair the other one committed.
C6_NoExchangeLost ==
    \A c \in Chats :
        resets = 0 =>
            /\ Len(Get(c)) = (IF Len(committed[c]) <= 20 THEN Len(committed[c]) ELSE 20)
            /\ IsSuffix(Get(c), committed[c])

\* the step selects the handler of the request in slot s
Selects(s, h) ==
    /\ s \in DOMAIN reqs'
    /\ reqs'[s].handler = h
    /\ s \in Busy => reqs[s].handler = "none"

\* C7: once /reset has been processed for a chat whose requests never
\* overlapped, the history read for the chat is empty for as long as the
\* request is there, whether or not the chat had a history; the step that
\* processes it raises no error, it goes on to send the confirmation; and when
\* the chat has no history the step changes nothing in the store, so a second
\* /reset leaves what the first one left.
C7_ResetClears ==
    /\ [](\A s \in Busy :
            (reqs[s].handler = "reset" /\ reqs[s].chat \notin overlapped) =>
                Get(reqs[s].chat) = <<>>)
    /\ [][\A s \in Slots :
            Selects(s, "reset") =>
                /\ ~reqs'[s].rejected
                /\ reqs'[s].out =
                    <<Call("sendMessage", reqs'[s].chat, "ResetDone", <<>>)>>
                /\ reqs'[s].chat \in DOMAIN chatHistories' =>
                        chatHistories'[reqs'[s].chat] = <<>>
                /\ Get(reqs'[s].chat) = <<>> => chatHistories' = chatHistories]_vars

\* /reset was processed for a chat that had a history
C7_Witness ==
    \E s \in Busy :
        /\ reqs[s].handler = "reset"
        /\ reqs[s].pc = "done"
        /\ reqs[s].deleted
        /\ reqs[s].chat \notin overlapped

\* the order of the tests as the dispatch applies them, told by their conditions
HandlerOf(text, voice) ==
    CASE voice -> "voice"
      [] ~voice /\ text = Reset -> "reset"
      [] ~voice /\ text # Reset
            /\ (StartsWith(text, Start) \/ StartsWith(text, Help)) -> "help"
      [] ~voice /\ ~StartsWith(text, Start) /\ ~StartsWith(text, Help)
            /\ StartsWith(text, Translate) -> "translate"
      [] ~voice /\ ~StartsWith(text, Translate) /\ StartsWith(text, Tts) -> "tts"
      [] ~voice /\ text = Empty -> "none"
      [] OTHER -> "chat"

\* the order of the tests as claimed: the four commands, then the attachment
ClaimedHandlerOf(text, voice) ==
    IF text = Reset THEN "reset"
    ELSE IF StartsWith(text, Start) \/ StartsWith(text, Help) THEN "help"
    ELSE IF StartsWith(text, Translate) THEN "translate"
    ELSE IF StartsWith(text, Tts) THEN "tts"
    ELSE IF voice THEN "voice"
    ELSE IF text # Empty THEN "chat"
    ELSE "none"

\* the first outbound call of a dispatched request tells the handler that runs
FirstCallOf(h) ==
    CASE h = "voice" -> {"VoiceNotice"}
      [] h = "reset" -> {"ResetDone"}
      [] h = "help" -> {"HelpText"}
      [] h = "translate" -> {"UsageTranslate", "typing", "en"}
      [] h = "tts" -> {"UsageTts", "upload_voice"}
      [] h = "chat" -> {"typing", "AiUnavailable"}
      [] OTHER -> {}

\* C8 as stated: the handler of a message is the first match among exact
\* /reset, prefix /start or /help, prefix /translate, prefix /tts, voice
\* attachment, non-empty free text; a command text wins over an attachment.
C8_ClaimedPrecedence ==
    \A s \in Busy :
        Dispatched(reqs[s]) =>
            reqs[s].handler = ClaimedHandlerOf(reqs[s].text, reqs[s].voice)

\* C8, amended: the handler of a message is the first match among voice
\* attachment, exact /reset, prefix /start or /help, prefix /translate, prefix
\* /tts, non-empty free text: a message with an attachment is handled as voice
\* whatever its text, and the first call made for a message is the one its
\* handler starts with.
C8_VoiceFirstPrecedence ==
    \A s \in Busy :
        Dispatched(reqs[s]) =>
            /\ reqs[s].handler = HandlerOf(reqs[s].text, reqs[s].voice)
            /\ reqs[s].out # <<>> =>
                reqs[s].out[1].msg \in FirstCallOf(reqs[s].handler)

\* a message with an attachment and the text /reset was handled as voice
C8_Witness ==
    \E s \in Busy :
        /\ Dispatched(reqs[s])
        /\ reqs[s].voice
        /\ reqs[s].text = Reset
        /\ reqs[s].handler = "voice"
        /\ reqs[s].pc = "done"

\* C9: a history is deleted, and the reset confirmation sent, only for a message
\* whose text is exactly /reset: a step that empties a chat's history selects
\* the reset handler for a request of that chat with that text, and a request
\* that sent the confirmation has that text.
C9_OnlyExactReset ==
    /\ [](\A s \in Busy :
            Called(reqs[s], "sendMessage", "ResetDone") => reqs[s].text = Reset)
    /\ [][\A c \in Chats :
            (Get(c) # <<>> /\ c \notin DOMAIN chatHistories') =>
                \E s \in Slots :
                    /\ Selects(s, "reset")
                    /\ reqs'[s].chat = c
                    /\ reqs'[s].text = Reset]_vars

\* a message whose text starts with /reset and goes on was processed to its end
\* as free text, and the history of its chat holds its turns
C9_Witness ==
    \E s \in Busy :
        /\ reqs[s].text \in {Reset \o <<"X">>, Reset \o <<" ">>}
        /\ ~reqs[s].voice
        /\ reqs[s].pc = "done"
        /\ ~Called(reqs[s], "sendMessage", "ResetDone")
        /\ Len(Get(reqs[s].chat)) = 2
        /\ Get(reqs[s].chat)[1].text = reqs[s].text

\* the text is the command followed by nothing or by white space only
IsBare(text, command) ==
    /\ StartsWith(text, command)
    /\ \A i \in (Len(command) + 1)..Len(text) : IsSpace(text[i])

\* C10: in both variants a message without attachment whose text is /translate
\* or /tts followed by nothing or by white space is answered with the usage
\* message of the command, and no call goes to the translation or the speech
\* synthesis service and no typing or upload indicator is sent.
C10_BareCommandUsage ==
    \A s \in Busy :
        LET r == reqs[s]
            usage == IF IsBare(r.text, Translate) THEN "UsageTranslate" ELSE "UsageTts"
        IN  (/\ Dispatched(r)
             /\ ~r.voice
             /\ IsBare(r.text, Translate) \/ IsBare(r.text, Tts)) =>
                /\ r.out # <<>>
                /\ r.out[1] = Call("sendMessage", r.chat, usage, <<>>)
                /\ ~CalledApi(r, "translateText")
                /\ ~CalledApi(r, "synthesizeSpeech")
                /\ ~CalledApi(r, "sendChatAction")

\* the request carries nothing to process: no message, or a message with
\* neither text nor voice attachment
Droppable(r) == ~r.hasMessage \/ (r.text = Empty /\ ~r.voice)

\* C11: a request without message, or whose message has neither text nor voice
\* attachment, is acknowledged with 200 and dropped: it issues no outbound
\* call, it is answered 200 when its handler has ended, and no step taken for
\* it changes the conversation store.
C11_DroppedSilently ==
    /\ [](\A s \in Busy :
            Droppable(reqs[s]) =>
                /\ reqs[s].out = <<>>
                /\ reqs[s].pc = "done" => reqs[s].response = "200")
    /\ [][\A s \in Slots :
            (/\ s \in DOMAIN reqs'
             /\ Droppable(reqs'[s])
             /\ s \in Busy => reqs[s] # reqs'[s]) =>
                chatHistories' = chatHistories]_vars

\* the text is the command followed by something that is not white space
HasArgument(text, command) ==
    /\ StartsWith(text, command)
    /\ \E i \in (Len(command) + 1)..Len(text) : ~IsSpace(text[i])

\* part occurs in whole
Contains(whole, part) ==
    \E i \in 0..(Len(whole) - Len(part)) : SubSeq(whole, i + 1, i + Len(part)) = part

\* every call the request issued was accepted: it ended with no failure caught
Succeeded(r) ==
    /\ r.pc = "done"
    /\ ~r.rejected
    /\ r.notice = "none"
    /\ ~Called(r, "sendMessage", "Error")

\* C12: a message of chat c with text /translate t, t not empty, for which the
\* translation service answered and the platform accepted the calls, has a
\* sendMessage to chat c whose text contains what the service returned for the
\* content it was given, the content being t; and every sendMessage issued
\* for a message goes to the chat the message came from.
C12_TranslationSentToChat ==
    \A s \in Busy :
        LET r == reqs[s] IN
        /\ \A i \in 1..Len(r.out) : r.out[i].api = "sendMessage" => r.out[i].chat = r.chat
        /\ (/\ Dispatched(r) /\ ~r.voice
            /\ HasArgument(r.text, Translate)
            /\ Succeeded(r)) =>
                \E i, j \in 1..Len(r.out) :
                    /\ i < j
                    /\ r.out[i].api = "translateText"
                    /\ r.out[i].body # Empty
                    /\ Contains(r.text, r.out[i].body)
                    /\ r.out[j].api = "sendMessage"
                    /\ r.out[j].chat = r.chat
                    /\ Contains(r.out[j].body, Translated(r.out[i].body))

\* /translate a of chat 2 was translated in variant 1 and its result sent
C12_Witness ==
    /\ variant = 1
    /\ \E s \in Busy :
        /\ reqs[s].chat = 2
        /\ reqs[s].text = Translate \o <<" ", "a">>
        /\ ~reqs[s].voice
        /\ Succeeded(reqs[s])
        /\ Len(reqs[s].out) = 3

\* a failure was caught for the request, and its notification was set up
Caught(r) == r.notice # "none" \/ Called(r, "sendMessage", "Error")

\* the typing indicator of a conversational request failed: it threw, or the
\* platform refused it
TypingFailed(r) ==
    /\ r.handler = "chat"
    /\ r.out # <<>>
    /\ r.out[1].api = "sendChatAction"
    /\ \/ 1 \in r.ignored
       \/ Caught(r) /\ ~CalledApi(r, "generateContent")

\* the language-model call of a conversational request, or the validation of
\* its response, failed
ModelFailed(r) ==
    /\ r.handler = "chat"
    /\ CalledApi(r, "generateContent")
    /\ Caught(r)
    /\ ~Called(r, "sendMessage", "Reply")

\* C13 as stated: a conversational request whose typing indicator, model call
\* or response validation failed stores nothing.
C13_NothingOnAnyFailure ==
    \A s \in Busy :
        (TypingFailed(reqs[s]) \/ ModelFailed(reqs[s])) => ~reqs[s].stored

\* C13, amended: nothing is stored unless the model call succeeded.  A request
\* that has stored is a conversational one that called the model and went on
\* to send the reply it got; a request whose model call or response
\* validation failed, or whose typing indicator threw, has stored nothing; and
\* a step changes the history of a chat only by deleting it for /reset or by
\* the set of a request that was awaiting the sendMessage of its reply.  In
\* variant 2 a typing indicator the platform answers with ok: false is not a
\* failure of the handler: it goes on, and stores when the model call succeeds.
C13_NothingUnlessModelSucceeded ==
    /\ [](\A s \in Busy :
            LET r == reqs[s] IN
            /\ r.stored =>
                /\ r.handler = "chat"
                /\ \E i, j \in 1..Len(r.out) :
                    /\ i < j
                    /\ r.out[i].api = "generateContent"
                    /\ r.out[j] = Call("sendMessage", r.chat, "Reply", r.reply)
                /\ r.reply \in {ReplyTo(r.text), FallbackReply}
            /\ (ModelFailed(r) \/ (TypingFailed(r) /\ Caught(r))) => ~r.stored
            /\ (TypingFailed(r) /\ r.stored) => variant = 2 /\ 1 \in r.ignored)
    /\ [][\A c \in Chats :
            (c \in DOMAIN chatHistories' /\ Get(c) # chatHistories'[c]) =>
                \E s \in Busy :
                    /\ reqs[s].chat = c
                    /\ reqs[s].pc = "chat_send"
                    /\ ~reqs[s].stored
                    /\ reqs'[s].stored]_vars

\* a conversational request of variant 1 whose model call failed has sent its
\* notification and ended, and the history its chat had is still there
C13_Witness ==
    /\ variant = 1
    /\ \E s \in Busy :
        /\ ModelFailed(reqs[s])
        /\ reqs[s].pc = "done"
        /\ ~reqs[s].stored
        /\ Len(Get(reqs[s].chat)) = 2

\* the failure notifications of variant 1: those of the handlers' catches, and
\* the one of the catch around the dispatch
FailureNotices ==
    {"VoiceFailed", "TranslationFailed", "TtsFailed", "AiKeyProblem", "AiQuota",
     "AiBadRequest", "AiDetail", "AiUnavailable", "ServiceUnavailable"}

\* the positions in out of the calls of the kind
CallsTo(r, api) == {i \in 1..Len(r.out) : r.out[i].api = api}

\* the positions in out of the failure notifications
Notifications(r) ==
    {i \in 1..Len(r.out) :
        r.out[i].api = "sendMessage" /\ r.out[i].msg \in FailureNotices}

\* C14: no retry, one report.  For every message each AI service (translation,
\* speech recognition, speech synthesis, language model) is called at most
\* once, in both variants; and in variant 1 a message whose processing failed
\* has exactly one failure notification, sent to its chat once the catch's
\* deferred callback has run, and a message whose processing did not fail has
\* none: no message ever has two.
C14_NoRetryOneNotice ==
    \A s \in Busy :
        LET r == reqs[s] IN
        /\ \A api \in AiApis : Cardinality(CallsTo(r, api)) <= 1
        /\ variant = 1 =>
            /\ Cardinality(Notifications(r)) <= 1
            /\ r.notice = "none" => Notifications(r) = {}
            /\ (r.notice # "none" /\ r.pc \in {"safe_send", "done"}) =>
                /\ Notifications(r) = {Len(r.out)}
                /\ r.out[Len(r.out)] = Call("sendMessage", r.chat, r.notice, r.detail)

\* in variant 1 the speech synthesis of a /tts message failed after its service
\* was called: the one notification went out and the handler ended
C14_Witness ==
    /\ variant = 1
    /\ \E s \in Busy :
        /\ reqs[s].pc = "done"
        /\ reqs[s].notice = "TtsFailed"
        /\ Cardinality(CallsTo(reqs[s], "synthesizeSpeech")) = 1
        /\ Cardinality(Notifications(reqs[s])) = 1

\* C15: in both variants the processing of a message never ends in an uncaught
\* exception or unhandled rejection: the handler's promise is never rejected,
\* and a request for which a failure was caught ends with the failure
\* notification as the last call it issued, whatever becomes of that call.
C15_NeverRaises ==
    \A s \in Busy :
        LET r == reqs[s] IN
        /\ ~r.rejected
        /\ (r.pc = "done" /\ Caught(r)) =>
            /\ r.out[Len(r.out)].api = "sendMessage"
            /\ r.out[Len(r.out)].msg \in FailureNotices \cup {"Error"}

\* the explanation claimed for the error callGeminiAPI threw
ClaimedErrorMessage(message) ==
    IF Includes(message, "API_KEY") THEN "AiKeyProblem"
    ELSE IF Includes(message, "QUOTA") THEN "AiQuota"
    ELSE IF Includes(message, "BAD_REQUEST") \/ Includes(message, "CONTENT_BLOCKED")
    THEN "AiBadRequest"
    ELSE "AiDetail"

\* C16: when the language-model call of variant 1 fails, the notification is
\* the one of the failure class: the API-key explanation for HTTP 403, the
\* quota explanation for HTTP 429, the bad-request explanation for HTTP 400
\* and for a candidate stopped by the safety filter, the catch-all explanation
\* for network errors, timeouts and everything else.
C16_MessagePerFailureClass ==
    \A s \in Busy :
        (variant = 1 /\ ModelFailed(reqs[s])) =>
            reqs[s].notice = ClaimedErrorMessage(reqs[s].detail)

\* the handler of the request is suspended at the await of an external call
Awaiting(r) == r.pc \notin {"received", "deferred", "notify", "done"}

\* C17: a call that does not return blocks only the message it was made for.
\* Whenever the handler of one request is suspended at an await and the
\* handler of another request has run to its end meanwhile, the suspended
\* request has its 200 already and the other one has been answered 200 too.
C17_HungCallBlocksOnlyItself ==
    \A s, t \in Busy :
        (s # t /\ Awaiting(reqs[s]) /\ reqs[t].pc = "done") =>
            /\ reqs[s].response = "200"
            /\ reqs[t].response = "200"

\* what a request of the handler has issued when all its calls succeeded
CompletedAs(r, h) ==
    CASE h = "reset" -> r.out = <<Call("sendMessage", r.chat, "ResetDone", <<>>)>>
      [] h = "help" -> r.out = <<Call("sendMessage", r.chat, "HelpText", <<>>)>>
      [] h = "translate" ->
            IF HasArgument(r.text, Translate)
            THEN CalledApi(r, "translateText") /\ Called(r, "sendMessage", "TranslationResult")
            ELSE r.out = <<Call("sendMessage", r.chat, "UsageTranslate", <<>>)>>
      [] h = "tts" ->
            IF HasArgument(r.text, Tts)
            THEN CalledApi(r, "synthesizeSpeech") /\ CalledApi(r, "sendVoice")
            ELSE r.out = <<Call("sendMessage", r.chat, "UsageTts", <<>>)>>
      [] h = "voice" -> CalledApi(r, "recognize") /\ Called(r, "sendMessage", "VoiceResult")
      [] OTHER -> TRUE

\* C18: in variant 1 without the AI key a free text gets one 'feature
\* unavailable' message and nothing else: no typing indicator, no call of the
\* language model, nothing stored, and no step taken for it changes the store;
\* and the /reset, /help, /translate, /tts and voice paths never answer with
\* that message and do what they do with the key: each starts with its own
\* first call and, when its calls succeed, completes its own exchange.
C18_ChatDisabledWithoutKey ==
    /\ [](\A s \in Busy :
            LET r == reqs[s]
                unavailable == Call("sendMessage", r.chat, "AiUnavailable", <<>>)
            IN  (variant = 1 /\ ~aiKey /\ Dispatched(r)) =>
                    /\ r.handler = "chat" =>
                        /\ r.notice = "AiUnavailable"
                        /\ r.out = IF r.pc = "notify" THEN <<>> ELSE <<unavailable>>
                        /\ ~r.stored
                    /\ r.handler \notin {"chat", "none"} =>
                        /\ r.notice # "AiUnavailable"
                        /\ r.out # <<>>
                        /\ r.out[1].msg \in FirstCallOf(r.handler)
                        /\ Succeeded(r) => CompletedAs(r, r.handler))
    /\ [][\A s \in Slots :
            (/\ variant = 1 /\ ~aiKey
             /\ s \in DOMAIN reqs'
             /\ reqs'[s].handler = "chat"
             /\ s \in Busy => reqs[s] # reqs'[s]) =>
                chatHistories' = chatHistories]_vars

\* without the key a free text, the second message of the run, was answered
\* with the one message and its handler ended
C18_Witness ==
    /\ variant = 1
    /\ ~aiKey
    /\ received = 2
    /\ \E s \in Busy :
        /\ reqs[s].pc = "done"
        /\ reqs[s].handler = "chat"
        /\ reqs[s].out = <<Call("sendMessage", reqs[s].chat, "AiUnavailable", <<>>)>>

\* C19: once a /reset of a chat has run, the stored history of the chat holds
\* no turn made from a message received before it: the user turn of a request
\* that was in flight when the /reset ran is never in the history.
C19_NoTurnFromBeforeReset ==
    \A s \in Busy :
        reqs[s].outdated =>
            \A i \in 1..Len(Get(reqs[s].chat)) :
                Get(reqs[s].chat)[i] # Turn("user", reqs[s].text)

\* C20: every stored history is a sequence of whole exchanges: its length is
\* even, its turns alternate user, model from a user turn on, and each model
\* turn is the reply given to the user turn before it; so the cut to 20 turns
\* never leaves a history that starts with a model turn or lacks half a pair.
C20_WholePairs ==
    \A c \in DOMAIN chatHistories :
        LET h == chatHistories[c] IN
        /\ Len(h) % 2 = 0
        /\ \A i \in 1..Len(h) :
            IF i % 2 = 1
            THEN h[i].role = "user"
            ELSE /\ h[i].role = "model"
                 /\ h[i].text \in {ReplyTo(h[i - 1].text), FallbackReply}

\* a history cut to 20 turns: its first exchange is no longer the first one of
\* the chat
C20_Witness ==
    \E c \in DOMAIN chatHistories :
        /\ Len(chatHistories[c]) = HistoryLimit
        /\ chatHistories[c][1].text # FreeText(1)
        /\ Len(Appended(c)) > HistoryLimit

\* the positions in out of the reply of a conversational request
ReplySends(r) ==
    {i \in 1..Len(r.out) : r.out[i] = Call("sendMessage", r.chat, "Reply", r.reply)}

\* the sendMessage of the reply was awaited and threw: the platform refused it
\* or did not answer
ReplyUndelivered(r) ==
    /\ r.handler = "chat"
    /\ ReplySends(r) # {}
    /\ r.pc # "chat_send"
    /\ ReplySends(r) \cap r.accepted = {}

\* C21: in variant 1 a turn pair is stored only after its reply was delivered.
\* A request that has stored has a sendMessage of its reply to its chat that
\* the platform accepted; a step that puts a model turn at the end of the
\* history of a chat is taken by a request of that chat for which such a
\* sendMessage with the text of that turn was accepted; and when the
\* sendMessage of the reply is refused or fails, that step leaves every
\* history as it was, nothing is stored for the request, and the failure
\* notification is set up and then sent to the chat.
C21_StoredAfterDelivery ==
    /\ [](\A s \in Busy :
            LET r == reqs[s] IN
            variant = 1 =>
                /\ r.stored => ReplySends(r) \cap r.accepted # {}
                /\ ReplyUndelivered(r) =>
                    /\ ~r.stored
                    /\ r.notice # "none"
                    /\ r.pc \in {"safe_send", "done"} =>
                        r.out[Len(r.out)] =
                            Call("sendMessage", r.chat, r.notice, r.detail))
    /\ [][variant = 1 =>
            /\ \A c \in Chats :
                (c \in DOMAIN chatHistories' /\ Get(c) # chatHistories'[c]) =>
                    LET h == chatHistories'[c] IN
                    \E s \in Busy :
                        /\ reqs'[s].chat = c
                        /\ h # <<>>
                        /\ h[Len(h)] = Turn("model", reqs'[s].reply)
                        /\ ReplySends(reqs'[s]) \cap reqs'[s].accepted # {}
            /\ \A s \in Busy :
                (reqs[s].pc = "chat_send" /\ ReplyUndelivered(reqs'[s])) =>
                    chatHistories' = chatHistories]_vars

\* in variant 1 the reply to the second free text of a chat was not delivered:
\* the notification went out, and the history still holds the first exchange only
C21_Witness ==
    /\ variant = 1
    /\ \E s \in Busy :
        /\ ReplyUndelivered(reqs[s])
        /\ reqs[s].pc = "done"
        /\ reqs[s].text = FreeText(2)
        /\ Get(reqs[s].chat) =
            <<Turn("user", FreeText(1)), Turn("model", ReplyTo(FreeText(1)))>>

\* what the map holds for a chat: nothing, or one array
Entry(map, chat) == IF chat \in DOMAIN map THEN <<map[chat]>> ELSE <<>>

\* the step runs a piece of the handler of the request in slot s
Acts(s) ==
    /\ s \in DOMAIN reqs'
    /\ s \in Busy => (reqs[s].pc # reqs'[s].pc \/ reqs[s].out # reqs'[s].out)

\* C22: the processing of a message of chat c touches chat c only, however
\* the handlers of different chats interleave.  Every outbound call of a request
\* is addressed to the chat of the request; a step of its handler leaves the
\* entry of every other chat in the store as it was; and the history the
\* handler reads, and passes to the language model with the new text, is the
\* one stored under its own chat at that moment.
C22_OtherChatsUntouched ==
    /\ [](\A s \in Busy :
            \A i \in 1..Len(reqs[s].out) : reqs[s].out[i].chat = reqs[s].chat)
    /\ [][\A s \in Slots :
            Acts(s) =>
                LET c == reqs'[s].chat
                    own == IF c \in DOMAIN chatHistories THEN chatHistories[c] ELSE <<>>
                IN  /\ \A d \in Chats \ {c} :
                        Entry(chatHistories', d) = Entry(chatHistories, d)
                    /\ (s \in Busy /\ reqs[s].pc = "chat_action"
                            /\ reqs'[s].pc = "chat_llm") =>
                        /\ reqs'[s].history = own
                        /\ reqs'[s].out[Len(reqs'[s].out)] =
                            Call("generateContent", c, "contents",
                                 own \o <<Turn("user", reqs'[s].text)>>)]_vars

\* the handlers of the two chats are suspended together, one after it has read
\* its history and the other about to store, and the chats' histories differ
C22_Witness ==
    \E s, t \in Busy :
        /\ reqs[s].chat # reqs[t].chat
        /\ reqs[s].pc = "chat_send"
        /\ reqs[t].pc = "chat_llm"
        /\ Get(reqs[s].chat) # Get(reqs[t].chat)
        /\ reqs[s].history # reqs[t].history

\* the step changes what the store holds for chat c
Changed(c) == Entry(chatHistories', c) # Entry(chatHistories, c)

\* the step processes an exact /reset of chat c: the entry of c is gone
ResetStep(s, c) ==
    /\ Selects(s, "reset")
    /\ reqs'[s].chat = c
    /\ reqs'[s].text = Reset
    /\ ~reqs'[s].voice
    /\ c \notin DOMAIN chatHistories'

\* the step ends a free-text exchange of chat c: the request in slot s called
\* the model, was awaiting the sendMessage of its reply, and the entry of c
\* becomes the history it read followed by its user/model pair
ExchangeStep(s, c) ==
    /\ s \in Busy
    /\ reqs[s].chat = c
    /\ HandlerOf(reqs[s].text, reqs[s].voice) = "chat"
    /\ reqs[s].pc = "chat_send"
    /\ CalledApi(reqs[s], "generateContent")
    /\ c \in DOMAIN chatHistories'
    /\ chatHistories'[c] =
        SliceLast(reqs[s].history \o <<Turn("user", reqs[s].text),
                                       Turn("model", reqs[s].reply)>>, HistoryLimit)

\* the platform answered the sendMessage of the reply with ok: false
ReplyRefused(r) == ReplySends(r) \cap r.ignored # {}

\* h holds turns of conversations only: texts the dispatch gives to the
\* conversation, each followed by what the model replied or the fallback
ConversationTurns(h) ==
    \A i \in 1..Len(h) :
        \/ h[i].role = "user" /\ HandlerOf(h[i].text, FALSE) = "chat"
        \/ /\ h[i].role = "model"
           /\ i > 1
           /\ h[i].text \in {ReplyTo(h[i - 1].text), FallbackReply}

\* C23 as stated: a step changes the store only for an exact /reset or for a
\* free-text exchange that succeeded, its reply delivered to the chat.
C23_OnlyResetOrDeliveredExchange ==
    [][\A c \in Chats :
        Changed(c) =>
            \E s \in Slots :
                \/ ResetStep(s, c)
                \/ ExchangeStep(s, c) /\ ~ReplyRefused(reqs'[s])]_vars

\* C23, amended: a step changes the store only for an exact /reset, which
\* removes the chat's entry, or at the end of a free-text exchange for which
\* the model answered and the reply was sent, which appends the user/model
\* pair; the reply was accepted by the platform in variant 1, and in variant 2
\* it may have been answered with ok: false.  Every step of a help, /translate,
\* /tts or voice message, and of a message without text, leaves the whole
\* store as it was, whatever the outcome of its calls.  So the store and the
\* contents passed to the language model hold conversational turns only, and
\* no text sent or computed for a voice, /translate or /tts message is a turn.
C23_OnlyResetOrExchange ==
    /\ [][\A c \in Chats :
            Changed(c) =>
                \E s \in Slots :
                    \/ ResetStep(s, c)
                    \/ /\ ExchangeStep(s, c)
                       /\ ReplyRefused(reqs'[s]) => variant = 2]_vars
    /\ [][\A s \in Slots :
            (Acts(s) /\ HandlerOf(reqs'[s].text, reqs'[s].voice) \notin {"reset", "chat"})
                => chatHistories' = chatHistories]_vars
    /\ [](/\ \A c \in DOMAIN chatHistories : ConversationTurns(chatHistories[c])
          /\ \A s \in Busy :
                LET r == reqs[s] IN
                /\ \A i \in 1..Len(r.out) :
                        r.out[i].api = "generateContent" => ConversationTurns(r.out[i].body)
                /\ r.handler \in {"voice", "translate", "tts"} =>
                        \A i \in 1..Len(r.out), c \in DOMAIN chatHistories :
                            \A j \in 1..Len(chatHistories[c]) :
                                chatHistories[c][j].text # r.out[i].body)

\* a voice message whose transcript was sent, or a /translate message whose
\* translation failed, is done and the chat still has the one exchange it had
C23_Witness ==
    \E s \in Busy :
        LET r == reqs[s] IN
        /\ r.pc = "done"
        /\ \/ r.handler = "voice" /\ Called(r, "sendMessage", "VoiceResult")
           \/ /\ r.handler = "translate"
              /\ CalledApi(r, "translateText")
              /\ ~Called(r, "sendMessage", "TranslationResult")
        /\ chatHistories = (r.chat :> <<Turn("user", FreeText(1)),
                                        Turn("model", ReplyTo(FreeText(1)))>>)

=============================================================================
